---- MODULE Spec2Model ----
(***************************************************************************)
(* Usage collection of diskMon/disk_monitor.py (class DiskMonitor):        *)
(* get_user_usage and the functions it calls -- the quota fallback chain   *)
(* (_try_repquota, _try_quota_per_user) and the parallel du scan           *)
(* (get_user_usage_parallel over a ThreadPoolExecutor); further run() with  *)
(* process_disk and send_email, and _get_mount_point.                      *)
(*                                                                         *)
(* Text is modelled as sequences of atoms: a line is the sequence of its   *)
(* whitespace-separated fields (str.split()), a field is a sequence of     *)
(* atoms, an atom is a digit, one of the marks "+", "-", "*", "#", or a    *)
(* name (a run of letters, kept whole).  The derived float 'size_gb' of a  *)
(* usage record is size_bytes / 2^30 and is left out.                      *)
(***************************************************************************)
EXTENDS Integers, Sequences, FiniteSets, TLC

VARIABLES
    use_quotas,       \* config['performance']['use_quotas']
    config_max,       \* config['performance'].get('max_workers')
    path_state,       \* the volume path: "ok", "denied" (listing refused), "missing"
    entries,          \* os.listdir(disk_path), each entry with its kind and owner
    pc,               \* position of the calling thread
    result,           \* the last subprocess.run outcome (local 'result')
    user_usage,       \* the list under construction (local 'user_usage')
    quota_available,  \* local flag of _try_quota_per_user
    idx,              \* position of the 'for entry in entries' loop
    username,         \* local 'username' of the loop body
    lookup,           \* what get_user_from_directory returned in the loop body
    directories,      \* (entry_path, username) pairs of get_user_usage_parallel
    num_directories,  \* argument of _calculate_optimal_workers
    num_workers,      \* pool size handed to ThreadPoolExecutor
    tasks,            \* the futures: state, du outcome and returned size of each
    called,           \* which of "A", "B", "scan" have been invoked
    aRet,             \* what _try_repquota returned
    bRet,             \* what _try_quota_per_user returned
    sRet,             \* what get_user_usage_parallel returned
    ret,              \* what get_user_usage returned
    dry_run,          \* self.dry_run
    current_user,     \* getpass.getuser()
    administrators,   \* config['email'].get('administrators')
    size_unit,        \* config['email']['size_unit']: "ok" for a string, "bad" for any other value
    disks,            \* config['disks']
    disk_index,       \* position of 'for disk_config in disks' in run()
    disk_results,     \* local 'disk_results' of run()
    user_alerts_sent, \* local 'user_alerts_sent' of run()
    errors,           \* local 'errors' of run()
    outbox,           \* the mailx commands send_email has run, in order
    processed,        \* the disks process_disk was called for, in order
    exit_code,        \* what run() returned
    disk_path,        \* the argument of _get_mount_point, made absolute
    path,             \* local 'path' of _get_mount_point
    mounts            \* the directories for which os.path.ismount is true

vars == <<use_quotas, config_max, path_state, entries, pc, result, user_usage,
          quota_available, idx, username, lookup, directories, num_directories, num_workers,
          tasks, called, aRet, bRet, sRet, ret, dry_run, current_user, administrators,
          size_unit, disks, disk_index, disk_results, user_alerts_sent, errors, outbox,
          processed, exit_code, disk_path, path, mounts>>

config == <<use_quotas, config_max, path_state, entries>>
loopLocals == <<idx, username, lookup>>
scanLocals == <<directories, num_directories, num_workers, tasks>>
history == <<called, aRet, bRet, sRet, ret>>
monitor == <<dry_run, current_user, administrators, size_unit, disks>>
runLocals == <<disk_index, disk_results, user_alerts_sent, errors, outbox, processed, exit_code>>
mounting == <<disk_path, path, mounts>>

-----------------------------------------------------------------------------
(* Bounds *)

MaxEntries == 2
MaxBlocks == 2
MaxDuSize == 2
MaxLines == 2
MaxDirCount == 20
MaxDisks == 2
MaxDepth == 3

(* Program constants *)

min_workers == 1
max_upper_bound == 16
KiB == 1024

-----------------------------------------------------------------------------
(* Optional values: Python's None and a present value *)

None == [some |-> FALSE, val |-> <<>>]
Some(v) == [some |-> TRUE, val |-> v]
NoName == [some |-> FALSE, val |-> ""]
NoInt == [some |-> FALSE, val |-> 0]

Min(a, b) == IF a <= b THEN a ELSE b
Max(a, b) == IF a >= b THEN a ELSE b

RECURSIVE SeqsUpTo(_, _)
SeqsUpTo(S, n) ==
    IF n = 0 THEN {<<>>}
    ELSE LET shorter == SeqsUpTo(S, n - 1)
         IN  shorter \cup {Append(s, x) : s \in {t \in shorter : Len(t) = n - 1}, x \in S}

-----------------------------------------------------------------------------
(* Text: fields as sequences of atoms *)

Digits == <<"0", "1", "2", "3", "4", "5", "6", "7", "8", "9">>
IsDigit(c) == \E i \in 1..Len(Digits) : Digits[i] = c
DigitVal(c) == (CHOOSE i \in 1..Len(Digits) : Digits[i] = c) - 1

\* the decimal text of a natural number below 100
Num(n) == IF n < 10 THEN <<Digits[n + 1]>> ELSE <<Digits[(n \div 10) + 1], Digits[(n % 10) + 1]>>

\* str.rstrip(chars)
RECURSIVE rstrip(_, _)
rstrip(field, chars) ==
    IF field /= <<>> /\ field[Len(field)] \in chars
    THEN rstrip(SubSeq(field, 1, Len(field) - 1), chars)
    ELSE field

\* str.replace(c, '')
remove(field, c) == SelectSeq(field, LAMBDA a : a /= c)

RECURSIVE DigitsValue(_)
DigitsValue(ds) ==
    IF ds = <<>> THEN 0
    ELSE 10 * DigitsValue(SubSeq(ds, 1, Len(ds) - 1)) + DigitVal(ds[Len(ds)])

\* int(text): an optional sign and at least one digit, anything else is a ValueError
int(field) ==
    LET signed == field /= <<>> /\ field[1] \in {"+", "-"}
        ds == IF signed THEN Tail(field) ELSE field
    IN  IF ds /= <<>> /\ \A i \in 1..Len(ds) : IsDigit(ds[i])
        THEN [some |-> TRUE,
              val |-> IF signed /\ field[1] = "-" THEN 0 - DigitsValue(ds) ELSE DigitsValue(ds)]
        ELSE NoInt

\* '------' in line
HasSeparator(line) ==
    \E k \in 1..Len(line.f) : \E i \in 1..(Len(line.f[k]) - 5) :
        \A j \in 0..5 : line.f[k][i + j] = "-"

\* text.split(): the fields of all lines
RECURSIVE split(_)
split(lines) == IF lines = <<>> THEN <<>> ELSE Head(lines).f \o split(Tail(lines))

\* faulty variant of sort: the list is left in the order it was built
sort_omitted(list) == list

\* faulty variant of InsertDesc: the record goes in front whatever its size
InsertDesc_in_front(sorted, rec) == <<rec>> \o sorted

\* list.sort(key=lambda x: x['size_bytes'], reverse=True): stable, largest first
RECURSIVE InsertDesc(_, _)
InsertDesc(sorted, rec) ==
    IF sorted = <<>> THEN <<rec>>
    ELSE IF Head(sorted).size_bytes >= rec.size_bytes
         THEN <<Head(sorted)>> \o InsertDesc(Tail(sorted), rec)
         ELSE <<rec>> \o sorted

RECURSIVE sort(_)
sort(list) ==
    IF list = <<>> THEN <<>>
    ELSE InsertDesc(sort(SubSeq(list, 1, Len(list) - 1)), list[Len(list)])

-----------------------------------------------------------------------------
(* The environment: volumes, owner lookups and tool outcomes *)

NameUniverse == <<"alice", "bob", "carol", "dave">>

\* os.listdir(disk_path): any of the first k names, each a directory or a plain file
RECURSIVE Listings(_)
Listings(k) ==
    IF k = 0 THEN {<<>>}
    ELSE LET prev == Listings(k - 1)
         IN  prev \cup {Append(l, [name |-> NameUniverse[k], isdir |-> d]) :
                          l \in prev, d \in BOOLEAN}

\* os.path.isdir(os.path.join(disk_path, name))
isdir(name) == \E i \in 1..Len(entries) : entries[i].name = name /\ entries[i].isdir

\* the account owning a directory: the first one belongs to root, the others to
\* the account they are named after
pw_name(name) == IF name = NameUniverse[1] THEN "root" ELSE name

\* os.stat / pwd.getpwuid outcomes for a directory: stat fails, the uid has no
\* passwd entry, or the owner's name is found
OwnerLookups(name) ==
    {[kind |-> "oserror", pw_name |-> ""], [kind |-> "nokey", pw_name |-> ""],
     [kind |-> "ok", pw_name |-> pw_name(name)]}

\* performance.max_workers as the configuration file may give it
Unset == [kind |-> "unset", val |-> 0]
ConfigMaxChoices == {Unset, [kind |-> "int", val |-> 1], [kind |-> "int", val |-> 2]}
ConfigMaxSamples ==
    {Unset, [kind |-> "str", val |-> 0]} \cup {[kind |-> "int", val |-> v] : v \in -1..MaxDirCount}

Line(fields) == [f |-> fields, m |-> "none"]
NoResult == [kind |-> "none", stdout |-> <<>>]
Failed(kind) == [kind |-> kind, stdout |-> <<>>]
Ok(lines) == [kind |-> "ok", stdout |-> lines]

\* du -sb: a byte count and the path, no output at all, or a failure
DuOutcomes ==
    {Ok(<<Line(<<Num(n), <<"path">>>>)>>) : n \in 0..MaxDuSize}
    \cup {Ok(<<>>), Failed("nonzero"), Failed("timeout"), Failed("error")}

\* repquota -u: rows as 'name blocks', 'name-- blocks+', 'name -- blocks ...',
\* '#uid blocks', a lone name, a non-numeric usage field, an account without directory
RepquotaRows ==
    {Line(<<<<NameUniverse[i]>>, Num(b)>>) : i \in 1..Min(2, MaxEntries), b \in 1..MaxBlocks}
    \cup {Line(<<<<"alice", "-", "-">>, <<"1", "+">>>>),
          Line(<<<<"alice">>, <<"-", "-">>, <<"1">>>>),
          Line(<<<<"#", "1">>, <<"1">>>>),
          Line(<<<<"alice">>>>),
          Line(<<<<"alice">>, <<"x">>>>),
          Line(<<<<"zed">>, <<"1">>>>)}

SeparatorLine == Line(<<<<"-", "-", "-", "-", "-", "-", "-">>>>)

RepquotaOutcomes ==
    {Failed("nonzero"), Failed("timeout"), Failed("notfound"), Failed("error")}
    \cup {Ok(rows) : rows \in SeqsUpTo(RepquotaRows, 1)}
    \cup {Ok(<<SeparatorLine>> \o rows) : rows \in SeqsUpTo(RepquotaRows, MaxLines)}
    \cup {Ok(<<r, SeparatorLine>>) : r \in RepquotaRows}

\* quota -u name -w: lines naming the volume ("path"), its mount point ("mount")
\* or neither ("none")
QuotaLines ==
    {[f |-> <<<<"dev">>, Num(b)>>, m |-> "mount"] : b \in 1..MaxBlocks}
    \cup {[f |-> <<<<"dev">>, <<"1", "*">>>>, m |-> "path"],
          [f |-> <<<<"dev">>, <<"x">>>>, m |-> "mount"],
          [f |-> <<<<"dev">>>>, m |-> "mount"],
          [f |-> <<<<"dev">>, Num(MaxBlocks)>>, m |-> "none"],
          [f |-> <<>>, m |-> "none"]}

QuotaOutcomes ==
    {Failed("nonzero"), Failed("timeout"), Failed("notfound"), Failed("error")}
    \cup {Ok(lines) : lines \in SeqsUpTo(QuotaLines, MaxLines)}

-----------------------------------------------------------------------------
(* The functions of DiskMonitor *)

Record(u, d, size, src) == [username |-> u, directory |-> d, size_bytes |-> size, source |-> src]

\* get_directory_size: the byte count du printed, 0 on any failure
get_directory_size(res) ==
    IF res.kind = "ok"
    THEN LET fields == split(res.stdout)
         IN  IF fields /= <<>> /\ int(fields[1]).some THEN int(fields[1]).val ELSE 0
    ELSE 0

\* get_user_from_directory: the owner's account name, None when stat or getpwuid fails
get_user_from_directory(lk) ==
    IF lk.kind = "ok" THEN [some |-> TRUE, val |-> lk.pw_name] ELSE NoName

\* faulty variant of owner_or_entry: the fallback to the entry name is missing
owner_only(found, entry) == found.val

\* 'username = get_user_from_directory(entry_path); if not username: username = entry'
owner_or_entry(found, entry) ==
    IF found.some /\ found.val /= "" THEN found.val ELSE entry

\* one data row of the repquota report: the records it adds (none or one)
repquota_row(line) ==
    LET parts == line.f
    IN  IF Len(parts) < 2 THEN <<>>
        ELSE LET name == rstrip(parts[1], {"+", "-"})
                 blocks_used == int(remove(remove(parts[2], "+"), "-"))
             IN  IF name = <<>> \/ name[1] = "#" THEN <<>>
                 ELSE IF ~blocks_used.some THEN <<>>
                 ELSE IF Len(name) = 1 /\ isdir(name[1])
                      THEN <<Record(name[1], name[1], blocks_used.val * KiB, "quota")>>
                      ELSE <<>>

\* the 'for line in lines' loop of _try_repquota
RECURSIVE repquota_lines(_, _)
repquota_lines(lines, data_started) ==
    IF lines = <<>> THEN <<>>
    ELSE IF HasSeparator(Head(lines)) THEN repquota_lines(Tail(lines), TRUE)
    ELSE IF ~data_started THEN repquota_lines(Tail(lines), FALSE)
    ELSE repquota_row(Head(lines)) \o repquota_lines(Tail(lines), TRUE)

\* _try_repquota, from the outcome of 'repquota -u mount_point' on
try_repquota(res) ==
    IF res.kind /= "ok" THEN None
    ELSE LET found == repquota_lines(res.stdout, FALSE)
         IN  IF found /= <<>> THEN Some(sort(found)) ELSE None

\* faulty variant of quota_lines: no 'break' after the record, every line that names
\* the volume and carries a block count gives one
RECURSIVE quota_lines_no_break(_, _, _)
quota_lines_no_break(lines, u, d) ==
    IF lines = <<>> THEN <<>>
    ELSE LET line == Head(lines)
             blocks == IF Len(line.f) >= 2 THEN int(remove(line.f[2], "*")) ELSE NoInt
         IN  (IF line.m \in {"path", "mount"} /\ blocks.some
              THEN <<Record(u, d, blocks.val * KiB, "quota")>>
              ELSE <<>>) \o quota_lines_no_break(Tail(lines), u, d)

\* the 'for line in lines' loop of _try_quota_per_user: the first line that names the
\* volume or its mount point and carries a block count gives the record
RECURSIVE quota_lines(_, _, _)
quota_lines(lines, u, d) ==
    IF lines = <<>> THEN <<>>
    ELSE LET line == Head(lines)
             blocks == IF Len(line.f) >= 2 THEN int(remove(line.f[2], "*")) ELSE NoInt
         IN  IF line.m \in {"path", "mount"} /\ blocks.some
             THEN <<Record(u, d, blocks.val * KiB, "quota")>>
             ELSE quota_lines(Tail(lines), u, d)

\* 'result.returncode == 0 and result.stdout.strip()'
quota_answered(res) == res.kind = "ok" /\ split(res.stdout) /= <<>>

\* faulty variant of _calculate_optimal_workers: the configured maximum is taken
\* without the hard cap
workers_without_hard_cap(n, c) ==
    LET max_workers == IF c.kind = "int" /\ c.val > 0 THEN c.val ELSE max_upper_bound
    IN  Max(min_workers, Min(n, max_workers))

\* _calculate_optimal_workers
_calculate_optimal_workers(n, c) ==
    LET max_workers == IF c.kind = "int" /\ c.val > 0
                       THEN Min(c.val, max_upper_bound)
                       ELSE max_upper_bound
    IN  Max(min_workers, Min(n, max_workers))

-----------------------------------------------------------------------------
(* State *)

Pending == [done |-> FALSE, some |-> FALSE, val |-> <<>>]
Returned(opt) == [done |-> TRUE, some |-> opt.some, val |-> opt.val]

Queued == [st |-> "queued", kind |-> "none", size |-> 0, raised |-> FALSE]

Fresh ==
    /\ result = NoResult
    /\ user_usage = <<>>
    /\ quota_available = FALSE
    /\ idx = 0
    /\ username = ""
    /\ lookup = NoName
    /\ directories = <<>>
    /\ num_workers = 0
    /\ tasks = <<>>
    /\ called = {}
    /\ aRet = Pending
    /\ bRet = Pending
    /\ sRet = Pending
    /\ ret = Pending

\* the locals of run() before its first statement
RunFresh ==
    /\ disk_index = 0
    /\ disk_results = <<>>
    /\ user_alerts_sent = 0
    /\ errors = 0
    /\ outbox = <<>>
    /\ processed = <<>>
    /\ exit_code = NoInt

\* get_user_usage called on its own: no run() around it
RunIdle ==
    /\ dry_run = FALSE
    /\ current_user = ""
    /\ administrators = <<>>
    /\ size_unit = "ok"
    /\ disks = <<>>
    /\ RunFresh

\* _get_mount_point not entered
MountIdle ==
    /\ disk_path = <<>>
    /\ path = <<>>
    /\ mounts = {<<>>}

Init ==
    /\ use_quotas \in BOOLEAN
    /\ config_max \in ConfigMaxChoices
    /\ path_state \in {"ok", "denied", "missing"}
    /\ entries \in IF path_state = "missing" THEN {<<>>} ELSE Listings(MaxEntries)
    /\ pc = "start"
    /\ num_directories = 0
    /\ Fresh
    /\ RunIdle
    /\ MountIdle

-----------------------------------------------------------------------------
(* get_user_usage -> get_user_usage_from_quota *)

\* use_quotas is off: get_user_usage_from_quota returns None at once and
\* get_user_usage falls back to get_user_usage_parallel
QuotasDisabled ==
    /\ pc = "start"
    /\ ~use_quotas
    /\ pc' = "parallel"
    /\ UNCHANGED <<config, monitor, runLocals, mounting, result, user_usage, quota_available, loopLocals, scanLocals, history>>

\* faulty variant of RunRepquota: the use_quotas switch is not consulted
RunRepquota_flag_ignored ==
    /\ pc = "start"
    /\ called' = called \cup {"A"}
    /\ result' \in RepquotaOutcomes
    /\ pc' = "repquota"
    /\ UNCHANGED <<config, monitor, runLocals, mounting, user_usage, quota_available, loopLocals, scanLocals, aRet, bRet, sRet, ret>>

\* _try_repquota is entered and 'repquota -u mount_point' runs to an outcome
RunRepquota ==
    /\ pc = "start"
    /\ use_quotas
    /\ called' = called \cup {"A"}
    /\ result' \in RepquotaOutcomes
    /\ pc' = "repquota"
    /\ UNCHANGED <<config, monitor, runLocals, mounting, user_usage, quota_available, loopLocals, scanLocals, aRet, bRet, sRet, ret>>

\* faulty variant of ParseRepquota: the list of _try_repquota is not returned, the
\* per-user queries run all the same
ParseRepquota_no_return ==
    /\ pc = "repquota"
    /\ aRet' = Returned(try_repquota(result))
    /\ pc' = "quota_list"
    /\ result' = NoResult
    /\ UNCHANGED <<config, monitor, runLocals, mounting, user_usage, quota_available, loopLocals, scanLocals, called, bRet, sRet, ret>>

\* faulty variant of ParseRepquota: subprocess.TimeoutExpired is not caught
ParseRepquota_timeout_escapes ==
    /\ pc = "repquota"
    /\ LET r == try_repquota(result)
       IN  /\ aRet' = IF result.kind = "timeout" THEN aRet ELSE Returned(r)
           /\ ret' = IF r.some THEN Returned(r) ELSE ret
           /\ pc' = IF result.kind = "timeout" THEN "raised"
                    ELSE IF r.some THEN "done" ELSE "quota_list"
    /\ result' = NoResult
    /\ UNCHANGED <<config, monitor, runLocals, mounting, user_usage, quota_available, loopLocals, scanLocals, called, bRet, sRet>>

\* the rest of _try_repquota; a list is handed back through
\* get_user_usage_from_quota and get_user_usage, None moves on to the per-user queries
ParseRepquota ==
    /\ pc = "repquota"
    /\ aRet' = Returned(try_repquota(result))
    /\ ret' = IF aRet'.some THEN aRet' ELSE ret
    /\ pc' = IF aRet'.some THEN "done" ELSE "quota_list"
    /\ result' = NoResult
    /\ UNCHANGED <<config, monitor, runLocals, mounting, user_usage, quota_available, loopLocals, scanLocals, called, bRet, sRet>>

\* _try_quota_per_user is entered: os.listdir(disk_path)
QuotaListdir ==
    /\ pc = "quota_list"
    /\ called' = called \cup {"B"}
    /\ CASE path_state = "denied" ->      \* PermissionError: return None
              /\ bRet' = Returned(None)
              /\ pc' = "parallel"
              /\ UNCHANGED <<user_usage, quota_available, idx>>
         [] path_state = "missing" ->     \* FileNotFoundError is not caught
              /\ pc' = "raised"
              /\ UNCHANGED <<bRet, user_usage, quota_available, idx>>
         [] OTHER ->
              /\ user_usage' = <<>>
              /\ quota_available' = FALSE
              /\ idx' = 1
              /\ pc' = "quota_loop"
              /\ UNCHANGED bRet
    /\ UNCHANGED <<config, monitor, runLocals, mounting, result, username, lookup, scanLocals, aRet, sRet, ret>>

\* an entry that is no directory is passed over
QuotaSkip ==
    /\ pc = "quota_loop"
    /\ idx <= Len(entries)
    /\ ~entries[idx].isdir
    /\ idx' = idx + 1
    /\ UNCHANGED <<config, monitor, runLocals, mounting, pc, result, user_usage, quota_available, username, lookup,
                   scanLocals, history>>

\* a directory: its owner is looked up and 'quota -u username -w' runs to an outcome
QuotaRun ==
    /\ pc = "quota_loop"
    /\ idx <= Len(entries)
    /\ entries[idx].isdir
    /\ \E lk \in OwnerLookups(entries[idx].name) :
          /\ lookup' = get_user_from_directory(lk)
          /\ username' = owner_or_entry(lookup', entries[idx].name)
    /\ result' \in QuotaOutcomes
    /\ pc' = "quota"
    /\ UNCHANGED <<config, monitor, runLocals, mounting, user_usage, quota_available, idx, scanLocals, history>>

\* faulty variant of QuotaParse: a query that gave no answer ends the loop
QuotaParse_failure_aborts ==
    /\ pc = "quota"
    /\ IF quota_answered(result)
       THEN /\ quota_available' = TRUE
            /\ user_usage' = user_usage \o quota_lines(result.stdout, username, entries[idx].name)
            /\ idx' = idx + 1
       ELSE /\ UNCHANGED <<quota_available, user_usage>>
            /\ idx' = Len(entries) + 1
    /\ result' = NoResult
    /\ pc' = "quota_loop"
    /\ UNCHANGED <<config, monitor, runLocals, mounting, username, lookup, scanLocals, history>>

\* the outcome of one per-user query is taken in
QuotaParse ==
    /\ pc = "quota"
    /\ IF quota_answered(result)
       THEN /\ quota_available' = TRUE
            /\ user_usage' = user_usage \o quota_lines(result.stdout, username, entries[idx].name)
       ELSE UNCHANGED <<quota_available, user_usage>>
    /\ result' = NoResult
    /\ idx' = idx + 1
    /\ pc' = "quota_loop"
    /\ UNCHANGED <<config, monitor, runLocals, mounting, username, lookup, scanLocals, history>>

\* faulty variant of QuotaReturn: the list is returned whenever a query was answered
QuotaReturn_any_answer ==
    /\ pc = "quota_loop"
    /\ idx > Len(entries)
    /\ LET r == IF quota_available THEN Some(sort(user_usage)) ELSE None
       IN  /\ bRet' = Returned(r)
           /\ ret' = IF r.some THEN Returned(r) ELSE ret
           /\ pc' = IF r.some THEN "done" ELSE "parallel"
    /\ user_usage' = <<>>
    /\ quota_available' = FALSE
    /\ idx' = 0
    /\ username' = ""
    /\ lookup' = NoName
    /\ UNCHANGED <<config, monitor, runLocals, mounting, result, scanLocals, called, aRet, sRet>>

\* the end of _try_quota_per_user
QuotaReturn ==
    /\ pc = "quota_loop"
    /\ idx > Len(entries)
    /\ LET r == IF quota_available /\ user_usage /= <<>> THEN Some(sort(user_usage)) ELSE None
       IN  /\ bRet' = Returned(r)
           /\ ret' = IF r.some THEN Returned(r) ELSE ret
           /\ pc' = IF r.some THEN "done" ELSE "parallel"
    /\ user_usage' = <<>>
    /\ quota_available' = FALSE
    /\ idx' = 0
    /\ username' = ""
    /\ lookup' = NoName
    /\ UNCHANGED <<config, monitor, runLocals, mounting, result, scanLocals, called, aRet, sRet>>

-----------------------------------------------------------------------------
(* get_user_usage_parallel *)

\* the path check and os.listdir(disk_path)
ParallelListdir ==
    /\ pc = "parallel"
    /\ called' = called \cup {"scan"}
    /\ IF path_state = "ok"
       THEN /\ directories' = <<>>
            /\ idx' = 1
            /\ pc' = "directories"
            /\ UNCHANGED <<sRet, ret>>
       ELSE /\ sRet' = Returned(Some(<<>>))
            /\ ret' = sRet'
            /\ pc' = "done"
            /\ UNCHANGED <<directories, idx>>
    /\ UNCHANGED <<config, monitor, runLocals, mounting, result, user_usage, quota_available, username, lookup,
                   num_directories, num_workers, tasks, aRet, bRet>>

\* 'for entry in entries': an entry that is no directory
DirectoriesSkip ==
    /\ pc = "directories"
    /\ idx <= Len(entries)
    /\ ~entries[idx].isdir
    /\ idx' = idx + 1
    /\ UNCHANGED <<config, monitor, runLocals, mounting, pc, result, user_usage, quota_available, username, lookup,
                   scanLocals, history>>

\* 'for entry in entries': a directory joins the list with its owner
DirectoriesAppend ==
    /\ pc = "directories"
    /\ idx <= Len(entries)
    /\ entries[idx].isdir
    /\ \E lk \in OwnerLookups(entries[idx].name) :
          /\ lookup' = get_user_from_directory(lk)
          /\ username' = owner_or_entry(lookup', entries[idx].name)
    /\ directories' = Append(directories, [dir_path |-> entries[idx].name, username |-> username'])
    /\ idx' = idx + 1
    /\ UNCHANGED <<config, monitor, runLocals, mounting, pc, result, user_usage, quota_available,
                   num_directories, num_workers, tasks, history>>

\* 'if not directories: return []'
NoDirectories ==
    /\ pc = "directories"
    /\ idx > Len(entries)
    /\ directories = <<>>
    /\ sRet' = Returned(Some(<<>>))
    /\ ret' = sRet'
    /\ pc' = "done"
    /\ idx' = 0
    /\ UNCHANGED <<config, monitor, runLocals, mounting, result, user_usage, quota_available, username, lookup,
                   scanLocals, called, aRet, bRet>>

\* faulty variant of Submit: the 'if not directories' check is missing
Submit_unguarded ==
    /\ pc = "directories"
    /\ idx > Len(entries)
    /\ num_directories' = Len(directories)
    /\ num_workers' = _calculate_optimal_workers(Len(directories), config_max)
    /\ tasks' = [i \in 1..Len(directories) |-> Queued]
    /\ user_usage' = <<>>
    /\ idx' = 0
    /\ username' = ""
    /\ lookup' = NoName
    /\ pc' = "as_completed"
    /\ UNCHANGED <<config, monitor, runLocals, mounting, result, quota_available, directories, history>>

\* the pool is sized and every directory is submitted
Submit ==
    /\ pc = "directories"
    /\ idx > Len(entries)
    /\ directories /= <<>>
    /\ num_directories' = Len(directories)
    /\ num_workers' = _calculate_optimal_workers(Len(directories), config_max)
    /\ tasks' = [i \in 1..Len(directories) |-> Queued]
    /\ user_usage' = <<>>
    /\ idx' = 0
    /\ username' = ""
    /\ lookup' = NoName
    /\ pc' = "as_completed"
    /\ UNCHANGED <<config, monitor, runLocals, mounting, result, quota_available, directories, history>>

InState(st) == {i \in 1..Len(tasks) : tasks[i].st = st}

\* faulty variant of WorkerFree: the pool is created without max_workers=num_workers
WorkerFree_unbounded == TRUE

\* ThreadPoolExecutor: a free worker takes the oldest queued task
WorkerFree == Cardinality(InState("running")) < num_workers

StartTask ==
    /\ pc = "as_completed"
    /\ InState("queued") /= {}
    /\ WorkerFree
    /\ LET i == CHOOSE j \in InState("queued") : \A k \in InState("queued") : j <= k
       IN  tasks' = [tasks EXCEPT ![i].st = "running"]
    /\ UNCHANGED <<config, monitor, runLocals, mounting, pc, result, user_usage, quota_available, loopLocals,
                   directories, num_directories, num_workers, history>>

\* a worker's get_directory_size call ends: du ran to an outcome
FinishTask(i) ==
    /\ pc = "as_completed"
    /\ tasks[i].st = "running"
    /\ \E out \in DuOutcomes :
          tasks' = [tasks EXCEPT ![i] = [st |-> "finished", kind |-> out.kind,
                                         size |-> get_directory_size(out), raised |-> FALSE]]
    /\ UNCHANGED <<config, monitor, runLocals, mounting, pc, result, user_usage, quota_available, loopLocals,
                   directories, num_directories, num_workers, history>>

\* faulty variant of task_record: the record literal carries the quota tag
task_record_quota_tag(i) ==
    Record(directories[i].username, directories[i].dir_path, tasks[i].size, "quota")

\* the record built for a completed future: future.result() or the except branch
task_record(i) ==
    IF tasks[i].raised
    THEN Record(directories[i].username, directories[i].dir_path, 0, "error")
    ELSE Record(directories[i].username, directories[i].dir_path, tasks[i].size, "du")

\* faulty variant of Collect: the appends of two futures that finished together race
\* and only one of the two records reaches the list
Collect_lost_append(i) ==
    /\ pc = "as_completed"
    /\ tasks[i].st = "finished"
    /\ user_usage' = Append(user_usage, task_record(i))
    /\ tasks' = [j \in 1..Len(tasks) |->
                   IF tasks[j].st = "finished" THEN [tasks[j] EXCEPT !.st = "collected"]
                   ELSE tasks[j]]
    /\ UNCHANGED <<config, monitor, runLocals, mounting, pc, result, quota_available, loopLocals,
                   directories, num_directories, num_workers, history>>

\* one round of 'for future in as_completed(future_to_dir)'
Collect(i) ==
    /\ pc = "as_completed"
    /\ tasks[i].st = "finished"
    /\ user_usage' = Append(user_usage, task_record(i))
    /\ tasks' = [tasks EXCEPT ![i].st = "collected"]
    /\ UNCHANGED <<config, monitor, runLocals, mounting, pc, result, quota_available, loopLocals,
                   directories, num_directories, num_workers, history>>

\* faulty variant of Exhausted: the loop ends as soon as no finished future is waiting
Exhausted_early == InState("finished") = {}

\* faulty variant of Exhausted: the loop waits for one future per listed entry
Exhausted_per_entry == InState("collected") = 1..Len(entries)

\* as_completed is exhausted once it has yielded every future
Exhausted == InState("collected") = 1..Len(tasks)

\* the pool is left, the list is sorted and returned
ParallelReturn ==
    /\ pc = "as_completed"
    /\ Exhausted
    /\ sRet' = Returned(Some(sort(user_usage)))
    /\ ret' = sRet'
    /\ user_usage' = <<>>
    /\ pc' = "done"
    /\ UNCHANGED <<config, monitor, runLocals, mounting, result, quota_available, loopLocals, scanLocals, called, aRet, bRet>>

Next ==
    \/ QuotasDisabled
    \/ RunRepquota
    \/ ParseRepquota
    \/ QuotaListdir
    \/ QuotaSkip
    \/ QuotaRun
    \/ QuotaParse
    \/ QuotaReturn
    \/ ParallelListdir
    \/ DirectoriesSkip
    \/ DirectoriesAppend
    \/ NoDirectories
    \/ Submit
    \/ StartTask
    \/ \E i \in 1..Len(tasks) : FinishTask(i)
    \/ \E i \in 1..Len(tasks) : Collect(i)
    \/ ParallelReturn

Spec == Init /\ [][Next]_vars

\* every subprocess.run returns or times out and every thread that can take a step
\* is scheduled: a step that is possible is not put off forever
SpecLive == Spec /\ WF_vars(Next)

TypeOK == pc \in {"start", "repquota", "quota_list", "quota_loop", "quota", "parallel",
                  "directories", "as_completed", "workers", "done", "raised",
                  "run", "for_disks", "alert", "exit", "get_mount_point", "ismount", "mounted"}

-----------------------------------------------------------------------------
(* _calculate_optimal_workers on its own, over directory counts beyond the hard cap *)

InitWorkers ==
    /\ use_quotas = FALSE
    /\ config_max \in ConfigMaxSamples
    /\ path_state = "ok"
    /\ entries = <<>>
    /\ pc = "workers"
    /\ num_directories \in 0..MaxDirCount
    /\ Fresh
    /\ RunIdle
    /\ MountIdle

CalculateWorkers ==
    /\ pc = "workers"
    /\ num_workers' = _calculate_optimal_workers(num_directories, config_max)
    /\ pc' = "done"
    /\ UNCHANGED <<config, monitor, runLocals, mounting, result, user_usage, quota_available, loopLocals, directories,
                   num_directories, tasks, history>>

SpecWorkers == InitWorkers /\ [][CalculateWorkers]_vars

-----------------------------------------------------------------------------
(* run(), process_disk and send_email.  get_user_usage is taken by its outcome: *)
(* the lists it can return for a volume, as the model above gives them.          *)

\* config['email']['domain']
domain == "corp"

\* f"{username}@{domain}"
address(name) == <<name, "@", domain>>

CurrentUsers == {"bob", "eve"}

\* email.administrators: absent or null, or a list of addresses
AdministratorChoices == {<<>>, <<address("root")>>, <<address("bob"), address("root")>>}

\* one entry of config['disks']: its path by what is there; its usage_limit_percent
\* absent, a number or, misconfigured, a string (a string is compared, and raises,
\* on any volume whose statistics were obtained: the readable one stands for both)
DiskConfigs ==
    {[path_state |-> "ok", usage_limit_percent |-> t] :
        t \in {[kind |-> "unset", val |-> 0], [kind |-> "int", val |-> 60],
               [kind |-> "str", val |-> 0]}}
    \cup {[path_state |-> "denied", usage_limit_percent |-> [kind |-> "unset", val |-> 0]]}
    \cup {[path_state |-> "missing", usage_limit_percent |-> t] :
             t \in {[kind |-> "unset", val |-> 0], [kind |-> "str", val |-> 0]}}

\* disk_config.get('usage_limit_percent', 80)
default_limit == 80

\* get_disk_usage: None for a missing path or a failing shutil.disk_usage, else the
\* statistics, of which the percentage used is kept
get_disk_usage(disk_config) ==
    IF disk_config.path_state = "missing" THEN {NoInt}
    ELSE {NoInt, [some |-> TRUE, val |-> 60], [some |-> TRUE, val |-> 80]}

\* get_user_usage for a volume: a quota list (repquota needs no listing of the
\* volume), or what get_user_usage_parallel returns, which is [] when the listing
\* is refused
UsageOutcomes(ps) ==
    (IF use_quotas THEN {<<Record("bob", "bob", KiB, "quota")>>} ELSE {})
    \cup (IF ps = "ok"
          THEN {<<>>, <<Record("bob", "bob", 2, "du"), Record("root", "alice", 0, "du")>>}
          ELSE {<<>>})

\* subprocess.run of the mailx command: exit 0, another exit code, a timeout; or the
\* temporary file could not be written and mailx was not run
MailOutcomes == {"sent", "failed", "timeout", "notemp"}

\* get_user_recipients
get_user_recipients(usage) ==
    {address(usage[k].username) : k \in {j \in 1..Len(usage) : usage[j].username /= ""}}

\* get_admin_recipients
get_admin_recipients == {administrators[k] : k \in 1..Len(administrators)}

\* faulty variant of mailx: the dry-run switch is not consulted
mailx_dry_run_ignored(subject, recipients) ==
    IF recipients = {} THEN <<>>
    ELSE <<[subject |-> <<subject>>, to |-> recipients, asked |-> recipients]>>

\* send_email up to its mailx command: none without recipients; in dry-run the only
\* recipient is the current user and the subject is prefixed
mailx(subject, recipients) ==
    IF recipients = {} THEN <<>>
    ELSE IF dry_run
         THEN <<[subject |-> <<"[DRY-RUN]", subject>>, to |-> {address(current_user)},
                 asked |-> recipients]>>
         ELSE <<[subject |-> <<subject>>, to |-> recipients, asked |-> recipients]>>

\* send_email from the command on: the commands run and whether True is returned
send_email(cmd, out) ==
    [ran |-> IF out = "notemp" THEN <<>> ELSE cmd, ok |-> cmd /= <<>> /\ out = "sent"]

\* faulty variant of process_disk: 'exceeded' is set without the comparison with the
\* threshold
process_disk_threshold_ignored(i, stats, usage) ==
    LET configured == disks[i].usage_limit_percent
    IN  IF ~stats.some
        THEN [raised |-> FALSE, disk_config |-> i, usage_stats |-> NoInt,
              user_usage |-> <<>>, exceeded |-> FALSE]
        ELSE IF configured.kind = "str"
        THEN [raised |-> TRUE, disk_config |-> i, usage_stats |-> stats,
              user_usage |-> <<>>, exceeded |-> FALSE]
        ELSE [raised |-> FALSE, disk_config |-> i, usage_stats |-> stats,
              user_usage |-> usage, exceeded |-> TRUE]

\* process_disk: the result dictionary, or the TypeError of 'percent >= threshold'
\* for a threshold that is no number
process_disk(i, stats, usage) ==
    LET configured == disks[i].usage_limit_percent
        threshold == IF configured.kind = "unset"
                     THEN [kind |-> "int", val |-> default_limit]
                     ELSE configured
    IN  IF ~stats.some
        THEN [raised |-> FALSE, disk_config |-> i, usage_stats |-> NoInt,
              user_usage |-> <<>>, exceeded |-> FALSE]
        ELSE IF threshold.kind /= "int"
        THEN [raised |-> TRUE, disk_config |-> i, usage_stats |-> stats,
              user_usage |-> <<>>, exceeded |-> FALSE]
        ELSE [raised |-> FALSE, disk_config |-> i, usage_stats |-> stats,
              user_usage |-> usage, exceeded |-> stats.val >= threshold.val]

InitRun ==
    /\ use_quotas \in BOOLEAN
    /\ config_max = Unset
    /\ path_state = "ok"
    /\ entries = <<>>
    /\ num_directories = 0
    /\ Fresh
    /\ MountIdle
    /\ pc = "run"
    /\ dry_run \in BOOLEAN
    /\ current_user \in CurrentUsers
    /\ administrators \in AdministratorChoices
    /\ size_unit \in {"ok", "bad"}
    /\ disks \in SeqsUpTo(DiskConfigs, MaxDisks)
    /\ RunFresh

\* run() up to its loop: nothing to do without disks
RunStart ==
    /\ pc = "run"
    /\ IF disks = <<>>
       THEN /\ exit_code' = [some |-> TRUE, val |-> 0]
            /\ pc' = "exit"
            /\ UNCHANGED disk_index
       ELSE /\ disk_index' = 1
            /\ pc' = "for_disks"
            /\ UNCHANGED exit_code
    /\ UNCHANGED <<config, monitor, mounting, result, user_usage, quota_available, loopLocals,
                   scanLocals, history, disk_results, user_alerts_sent, errors, outbox, processed>>

\* faulty variant of ProcessDisk: the loop body is not wrapped in try/except
ProcessDisk_uncaught ==
    /\ pc = "for_disks"
    /\ disk_index <= Len(disks)
    /\ processed' = Append(processed, disk_index)
    /\ \E stats \in get_disk_usage(disks[disk_index]) :
       \E usage \in UsageOutcomes(disks[disk_index].path_state) :
          LET res == process_disk(disk_index, stats, usage)
              alert == ~res.raised /\ res.usage_stats.some /\ res.exceeded /\ res.user_usage /= <<>>
          IN  /\ disk_results' = IF ~res.raised /\ res.usage_stats.some
                                 THEN Append(disk_results, res) ELSE disk_results
              /\ errors' = IF ~res.raised /\ ~res.usage_stats.some THEN errors + 1 ELSE errors
              /\ pc' = IF res.raised THEN "raised" ELSE IF alert THEN "alert" ELSE "for_disks"
              /\ disk_index' = IF alert \/ res.raised THEN disk_index ELSE disk_index + 1
    /\ UNCHANGED <<config, monitor, mounting, result, user_usage, quota_available, loopLocals,
                   scanLocals, history, user_alerts_sent, outbox, exit_code>>

\* one round of 'for disk_config in disks' up to the user alert: process_disk, then
\* the result is kept or an error is counted
ProcessDisk ==
    /\ pc = "for_disks"
    /\ disk_index <= Len(disks)
    /\ processed' = Append(processed, disk_index)
    /\ \E stats \in get_disk_usage(disks[disk_index]) :
       \E usage \in UsageOutcomes(disks[disk_index].path_state) :
          LET res == process_disk(disk_index, stats, usage)
              alert == ~res.raised /\ res.usage_stats.some /\ res.exceeded /\ res.user_usage /= <<>>
          IN  /\ disk_results' = IF ~res.raised /\ res.usage_stats.some
                                 THEN Append(disk_results, res) ELSE disk_results
              /\ errors' = IF res.raised \/ ~res.usage_stats.some THEN errors + 1 ELSE errors
              /\ pc' = IF alert THEN "alert" ELSE "for_disks"
              /\ disk_index' = IF alert THEN disk_index ELSE disk_index + 1
    /\ UNCHANGED <<config, monitor, mounting, result, user_usage, quota_available, loopLocals,
                   scanLocals, history, user_alerts_sent, outbox, exit_code>>

\* the user alert of a disk over its threshold; generate_user_disk_email raises in
\* bytes_to_unit when size_unit is no string, which the loop's except counts
UserAlert ==
    /\ pc = "alert"
    /\ IF size_unit = "bad"
       THEN /\ errors' = errors + 1
            /\ UNCHANGED <<outbox, user_alerts_sent>>
       ELSE \E out \in MailOutcomes :
               LET res == disk_results[Len(disk_results)]
                   sent == send_email(mailx("alert", get_user_recipients(res.user_usage)), out)
               IN  /\ outbox' = outbox \o sent.ran
                   /\ user_alerts_sent' = IF sent.ok THEN user_alerts_sent + 1 ELSE user_alerts_sent
                   /\ UNCHANGED errors
    /\ disk_index' = disk_index + 1
    /\ pc' = "for_disks"
    /\ UNCHANGED <<config, monitor, mounting, result, user_usage, quota_available, loopLocals,
                   scanLocals, history, disk_results, processed, exit_code>>

\* after the loop: the consolidated admin email and the exit code;
\* generate_admin_consolidated_email raises out of run() when size_unit is no string
AdminEmail ==
    /\ pc = "for_disks"
    /\ disk_index > Len(disks)
    /\ IF get_admin_recipients /= {} /\ disk_results /= <<>>
       THEN IF size_unit = "bad"
            THEN /\ pc' = "raised"
                 /\ UNCHANGED <<outbox, exit_code>>
            ELSE \E out \in MailOutcomes :
                    /\ outbox' = outbox \o send_email(mailx("report", get_admin_recipients), out).ran
                    /\ exit_code' = [some |-> TRUE, val |-> IF errors > 0 THEN 1 ELSE 0]
                    /\ pc' = "exit"
       ELSE /\ exit_code' = [some |-> TRUE, val |-> IF errors > 0 THEN 1 ELSE 0]
            /\ pc' = "exit"
            /\ UNCHANGED outbox
    /\ UNCHANGED <<config, monitor, mounting, result, user_usage, quota_available, loopLocals,
                   scanLocals, history, disk_index, disk_results, user_alerts_sent, errors,
                   processed>>

NextRun ==
    \/ RunStart
    \/ ProcessDisk
    \/ UserAlert
    \/ AdminEmail

SpecRun == InitRun /\ [][NextRun]_vars

-----------------------------------------------------------------------------
(* _get_mount_point.  A path is the sequence of its components below the root; the *)
(* argument may be relative and may hold ".." components.                          *)

\* os.getcwd()
cwd == <<"b">>

\* os.path.normpath of an absolute path: ".." drops the component before it and is
\* dropped itself at the root
RECURSIVE normpath(_, _)
normpath(done, parts) ==
    IF parts = <<>> THEN done
    ELSE IF Head(parts) = ".."
         THEN normpath(IF done = <<>> THEN <<>> ELSE SubSeq(done, 1, Len(done) - 1), Tail(parts))
         ELSE normpath(Append(done, Head(parts)), Tail(parts))

\* os.path.abspath: a relative path is joined to the working directory
abspath(arg) == normpath(<<>>, IF arg.rel THEN cwd \o arg.parts ELSE arg.parts)

\* faulty variant of dirname: two components are dropped at once
dirname_two_up(p) == IF Len(p) <= 2 THEN <<>> ELSE SubSeq(p, 1, Len(p) - 2)

\* os.path.dirname; the root is its own parent
dirname(p) == IF p = <<>> THEN <<>> ELSE SubSeq(p, 1, Len(p) - 1)

\* os.path.ismount
ismount(p) == p \in mounts

\* the mount points there may be besides the root, which always is one
MountChoices ==
    {{<<>>} \cup m : m \in SUBSET {<<"a">>, <<"b">>, <<"a", "b">>, <<"b", "a">>}}

InitMount ==
    /\ use_quotas = TRUE
    /\ config_max = Unset
    /\ path_state = "ok"
    /\ entries = <<>>
    /\ num_directories = 0
    /\ Fresh
    /\ RunIdle
    /\ pc = "get_mount_point"
    /\ disk_path \in [rel : BOOLEAN, parts : SeqsUpTo({"a", "b", ".."}, MaxDepth)]
    /\ path = <<>>
    /\ mounts \in MountChoices

\* 'path = os.path.abspath(path)'
MountAbspath ==
    /\ pc = "get_mount_point"
    /\ path' = abspath(disk_path)
    /\ pc' = "ismount"
    /\ UNCHANGED <<config, monitor, runLocals, disk_path, mounts, result, user_usage,
                   quota_available, loopLocals, scanLocals, history>>

\* one round of 'while not os.path.ismount(path)'
MountParent ==
    /\ pc = "ismount"
    /\ ~ismount(path)
    /\ path' = dirname(path)
    /\ UNCHANGED <<config, monitor, runLocals, disk_path, mounts, pc, result, user_usage,
                   quota_available, loopLocals, scanLocals, history>>

\* 'return path'
MountReturn ==
    /\ pc = "ismount"
    /\ ismount(path)
    /\ pc' = "mounted"
    /\ UNCHANGED <<config, monitor, runLocals, mounting, result, user_usage,
                   quota_available, loopLocals, scanLocals, history>>

NextMount ==
    \/ MountAbspath
    \/ MountParent
    \/ MountReturn

\* the thread running _get_mount_point is scheduled
SpecMount == InitMount /\ [][NextMount]_vars /\ WF_vars(NextMount)

-----------------------------------------------------------------------------
(* Properties *)

Records(opt) == {opt.val[k] : k \in 1..Len(opt.val)}

\* C1 as stated: a list from Strategy A is what get_user_usage returns and nothing
\* else is invoked; Strategy B is invoked only after A returned none; the scan is
\* invoked only after both A and B returned none.
C1_Stated ==
    /\ (aRet.done /\ aRet.some) => (called = {"A"} /\ pc = "done" /\ ret = aRet)
    /\ "B" \in called => aRet = Returned(None)
    /\ "scan" \in called => (aRet = Returned(None) /\ bRet = Returned(None))

\* C1 amended: a list from Strategy A is what get_user_usage returns and nothing else
\* is invoked; Strategy B is invoked only after A returned none; the scan is invoked
\* only after both returned none, or, with quotas disabled, with neither invoked.
C1_FallbackOrder ==
    /\ (aRet.done /\ aRet.some) => (called = {"A"} /\ pc = "done" /\ ret = aRet)
    /\ "B" \in called => aRet = Returned(None)
    /\ "scan" \in called =>
          \/ use_quotas /\ aRet = Returned(None) /\ bRet = Returned(None)
          \/ ~use_quotas /\ called = {"scan"} /\ aRet = Pending /\ bRet = Pending

C1_Witness == pc = "done" /\ aRet.some /\ Len(ret.val) >= 2

\* C2: with use_quotas off neither quota strategy is ever invoked, the call never
\* raises, and what get_user_usage returns is what get_user_usage_parallel returned.
C2_QuotasDisabled ==
    ~use_quotas =>
        /\ "A" \notin called /\ "B" \notin called
        /\ aRet = Pending /\ bRet = Pending
        /\ pc /= "raised"
        /\ ret.done => (sRet.done /\ ret = sRet)

C2_Witness == ~use_quotas /\ pc = "done" /\ Len(ret.val) >= 1

\* C3 as stated: after the scan, a directory whose du timed out has exactly one
\* record, of size 0 and tagged error, and every other directory has exactly one
\* record carrying the size its own du call returned (tagged du when du succeeded).
C3_Stated ==
    (sRet.done /\ tasks /= <<>>) =>
        \A i \in 1..Len(tasks) :
            LET own == {k \in 1..Len(sRet.val) : sRet.val[k].directory = directories[i].dir_path}
            IN  /\ Cardinality(own) = 1
                /\ \A k \in own :
                      IF tasks[i].kind = "timeout"
                      THEN sRet.val[k].size_bytes = 0 /\ sRet.val[k].source = "error"
                      ELSE /\ sRet.val[k].size_bytes = tasks[i].size
                           /\ tasks[i].kind = "ok" => sRet.val[k].source = "du"

SortedDesc(list) == \A k \in 1..(Len(list) - 1) : list[k].size_bytes >= list[k + 1].size_bytes

\* C4: every list returned by Strategy A, Strategy B, the scan and get_user_usage is
\* in non-increasing order of size_bytes.
C4_Sorted ==
    /\ SortedDesc(aRet.val)
    /\ SortedDesc(bRet.val)
    /\ SortedDesc(sRet.val)
    /\ SortedDesc(ret.val)

C4_Witness ==
    /\ pc = "done"
    /\ sRet.done
    /\ Len(ret.val) >= 2
    /\ ret.val[1].size_bytes > ret.val[Len(ret.val)].size_bytes
    /\ ret.val[1].directory /= directories[1].dir_path

\* C5: at every instant the number of get_directory_size calls in flight is at most
\* the worker count _calculate_optimal_workers gives for the directories found, and
\* at most a positive configured max_workers.
C5_InFlightBounded ==
    LET running == Cardinality(InState("running"))
    IN  /\ running <= _calculate_optimal_workers(Len(directories), config_max)
        /\ (config_max.kind = "int" /\ config_max.val > 0) => running <= config_max.val

C5_Witness ==
    /\ config_max.kind = "int"
    /\ Cardinality(InState("running")) = config_max.val
    /\ Cardinality(InState("running")) = num_workers
    /\ InState("queued") /= {}

Clamp(x, lo, hi) == IF x < lo THEN lo ELSE IF x > hi THEN hi ELSE x

\* C6: _calculate_optimal_workers(n, c) is clamp(n, 1, min(c, 16)) for a positive
\* integer c and clamp(n, 1, 16) for any other c; so it lies in 1..16, never exceeds
\* a positive c, and is min(n, 16) for n >= 1 without a cap.
C6_WorkerCount ==
    pc = "done" =>
        LET n == num_directories
            capped == config_max.kind = "int" /\ config_max.val > 0
        IN  /\ capped => num_workers = Clamp(n, 1, Min(config_max.val, 16))
            /\ ~capped => num_workers = Clamp(n, 1, 16)
            /\ num_workers \in 1..16
            /\ capped => num_workers <= config_max.val
            /\ (~capped /\ n >= 1) => num_workers = Min(n, 16)

C6_Witness ==
    /\ pc = "done"
    /\ num_directories > 16
    /\ config_max.kind = "int"
    /\ config_max.val > 16
    /\ num_workers = 16

Sources(opt) == {r.source : r \in Records(opt)}

\* C7: a returned list is all quota records or all scan records (du, or error with
\* size 0); a list from Strategy A or B is all quota, a list from the scan holds none.
C7_SingleProvenance ==
    ret.done =>
        /\ Sources(ret) \subseteq {"quota"} \/ Sources(ret) \subseteq {"du", "error"}
        /\ (aRet.some \/ bRet.some) => Sources(ret) \subseteq {"quota"}
        /\ sRet.done => Sources(ret) \subseteq {"du", "error"}
        /\ \A r \in Records(ret) : r.source = "error" => r.size_bytes = 0

C7_Witness ==
    /\ ret.done
    /\ use_quotas
    /\ sRet.done
    /\ Len(ret.val) >= 2

\* C8: when get_user_usage_parallel returns for a listable volume, no scan is queued,
\* running or waiting to be collected, and the list holds exactly one record for each
\* directory entry and none for any other entry.
C8_FanIn ==
    (sRet.done /\ path_state = "ok") =>
        /\ InState("collected") = 1..Len(tasks)
        /\ Len(tasks) = Cardinality({i \in 1..Len(entries) : entries[i].isdir})
        /\ Len(sRet.val) = Len(tasks)
        /\ \A i \in 1..Len(entries) :
              Cardinality({k \in 1..Len(sRet.val) : sRet.val[k].directory = entries[i].name})
                  = IF entries[i].isdir THEN 1 ELSE 0

C8_Witness ==
    /\ sRet.done
    /\ Len(sRet.val) >= 2
    /\ \E i \in 1..Len(tasks) : tasks[i].kind = "timeout"
    /\ \E i \in 1..Len(tasks) : tasks[i].kind = "ok"

FailureKinds == {"nonzero", "timeout", "notfound", "error"}

\* a usage field with a digit in it and nothing but digits and the marks given
Numeric(field, marks) ==
    /\ \E j \in 1..Len(field) : IsDigit(field[j])
    /\ \A j \in 1..Len(field) : IsDigit(field[j]) \/ field[j] \in marks

\* a report with no separator line, or whose rows all lack a numeric usage field
UnparsableReport(res) ==
    /\ res.kind = "ok"
    /\ \/ \A k \in 1..Len(res.stdout) : ~HasSeparator(res.stdout[k])
       \/ \A k \in 1..Len(res.stdout) :
             \/ HasSeparator(res.stdout[k])
             \/ Len(res.stdout[k].f) < 2
             \/ ~Numeric(res.stdout[k].f[2], {"+", "-"})

\* a per-account answer none of whose lines carries a numeric block count
UnparsableAnswer(res) ==
    /\ res.kind = "ok"
    /\ \A k \in 1..Len(res.stdout) :
          Len(res.stdout[k].f) < 2 \/ ~Numeric(res.stdout[k].f[2], {"*"})

\* C9: a failed or unparsable repquota run makes Strategy A return none and the
\* per-user queries start; a refused listing makes Strategy B return none and the
\* scan start; a failed or unparsable per-user query adds nothing and the loop goes
\* on; a loop that gathered nothing returns none and the scan starts; nothing is
\* raised unless the volume path itself is missing.
C9_QuotaFailuresFallThrough ==
    [][/\ (pc = "repquota" /\ (result.kind \in FailureKinds \/ UnparsableReport(result)))
            => (aRet' = Returned(None) /\ pc' = "quota_list")
       /\ (pc = "quota_list" /\ path_state = "denied")
            => (bRet' = Returned(None) /\ pc' = "parallel")
       /\ (pc = "quota" /\ (result.kind \in FailureKinds \/ UnparsableAnswer(result)))
            => (user_usage' = user_usage /\ idx' = idx + 1 /\ pc' = "quota_loop")
       /\ (pc = "quota_loop" /\ idx > Len(entries) /\ user_usage = <<>>)
            => (bRet' = Returned(None) /\ pc' = "parallel")
       /\ pc' = "raised" => path_state = "missing"
      ]_vars

C9_Witness ==
    /\ pc = "done"
    /\ aRet = Returned(None)
    /\ bRet = Returned(None)
    /\ path_state = "ok"
    /\ Len(ret.val) >= 1

\* C10: no record anywhere has an empty account; in the per-user loop and in the
\* scan's directory loop an unresolved owner leaves the entry's own name as account;
\* every record of Strategy B and of the scan carries the owner's name or the name of
\* its directory.
C10_AccountNeverEmpty ==
    /\ \A opt \in {aRet, bRet, sRet, ret} : \A r \in Records(opt) : r.username /= ""
    /\ \A k \in 1..Len(user_usage) : user_usage[k].username /= ""
    /\ \A k \in 1..Len(directories) : directories[k].username /= ""
    /\ (pc = "quota" /\ ~lookup.some) => username = entries[idx].name
    /\ (pc = "directories" /\ directories /= <<>> /\ ~lookup.some)
          => directories[Len(directories)].username = directories[Len(directories)].dir_path
    /\ \A opt \in {bRet, sRet} : \A r \in Records(opt) :
          r.username \in {r.directory, pw_name(r.directory)}

C10_Witness ==
    /\ pc = "done"
    /\ sRet.done \/ bRet.some
    /\ \E r \in Records(ret) :
          r.directory = NameUniverse[1] /\ r.username = NameUniverse[1]

\* a field that is nothing but quota-state marks, as the "--" column of a report row
StateMarks(field) == field /= <<>> /\ \A j \in 1..Len(field) : field[j] \in {"+", "-"}

\* the usage-block field of a report row: the first field after the account that is
\* not a column of quota-state marks
UsageField(parts) ==
    LET at == {k \in 2..Len(parts) : ~StateMarks(parts[k])}
    IN  IF at = {} THEN <<>> ELSE parts[CHOOSE k \in at : \A j \in at : k <= j]

\* the rows after the first separator line
RECURSIVE DataRows(_, _)
DataRows(lines, data_started) ==
    IF lines = <<>> THEN <<>>
    ELSE IF HasSeparator(Head(lines)) THEN DataRows(Tail(lines), TRUE)
    ELSE IF ~data_started THEN DataRows(Tail(lines), FALSE)
    ELSE <<Head(lines)>> \o DataRows(Tail(lines), TRUE)

\* the record a data row stands for: its usage-block field is an integer and its
\* account names a subdirectory of the volume
RowRecords(line) ==
    LET account == IF line.f = <<>> THEN <<>> ELSE rstrip(line.f[1], {"+", "-"})
        blocks == int(remove(remove(UsageField(line.f), "+"), "-"))
    IN  IF blocks.some /\ Len(account) = 1 /\ isdir(account[1])
        THEN {Record(account[1], account[1], blocks.val * KiB, "quota")}
        ELSE {}

\* C11 as stated: on a successful report _try_repquota yields a record for exactly
\* the data rows whose usage-block field is an integer and whose account names a
\* subdirectory of the volume, of size blocks * 1024; other rows are dropped and the
\* rows after them are still read.
C11_Stated ==
    [][(pc = "repquota" /\ result.kind = "ok")
          => LET rows == DataRows(result.stdout, FALSE)
             IN  {aRet'.val[k] : k \in 1..Len(aRet'.val)}
                    = UNION {RowRecords(rows[k]) : k \in 1..Len(rows)}
      ]_vars

\* a disk whose collection failed hard: its path is missing, or its top-level listing
\* was refused (the empty result for a path whose listing is denied)
HardFailure(i) ==
    \/ disks[i].path_state = "missing"
    \/ /\ disks[i].path_state = "denied"
       /\ \E k \in 1..Len(disk_results) :
             disk_results[k].disk_config = i /\ disk_results[k].user_usage = <<>>

\* C12 as stated: when run() returns and a configured disk had its listing refused or
\* its path missing, the exit status is 1.
C12_Stated ==
    (pc = "exit" /\ \E i \in 1..Len(disks) : HardFailure(i)) => exit_code.val = 1

C15_Stated ==
    dry_run =>
        \A k \in 1..Len(outbox) :
            /\ outbox[k].to = {address(current_user)}
            /\ outbox[k].subject[1] = "[DRY-RUN]"
            /\ outbox[k].to \cap outbox[k].asked = {}

\* C15 amended: in dry-run every mailx command goes to the current user's address
\* alone with the subject prefixed; no other address receives mail, whatever the
\* computed recipient list holds.
C15_DryRunRecipient ==
    dry_run =>
        \A k \in 1..Len(outbox) :
            /\ outbox[k].to = {address(current_user)}
            /\ outbox[k].subject[1] = "[DRY-RUN]"
            /\ Len(outbox[k].subject) = 2
            /\ \A a \in outbox[k].asked : a /= address(current_user) => a \notin outbox[k].to

C15_Witness ==
    /\ dry_run
    /\ pc = "exit"
    /\ Len(outbox) = 2
    /\ outbox[1].subject[2] = "alert"
    /\ outbox[2].subject[2] = "report"
    /\ address(current_user) \notin outbox[1].asked
    /\ Cardinality(outbox[2].asked) = 2

\* the record of each directory
ScanRecords == {task_record(i) : i \in 1..Len(tasks)}

\* C14: what the scan returns is fixed by the directories and the outcome of each
\* directory's du alone: one record per directory, that directory's, in non-increasing
\* order of size.  Two runs with the same outcomes and different completion orders so
\* return the same records and the same sequence of sizes; only records of equal size
\* may change places.
C14_CompletionOrderFree ==
    (sRet.done /\ tasks /= <<>>) =>
        /\ Records(sRet) = ScanRecords
        /\ Len(sRet.val) = Len(tasks)
        /\ \A i \in 1..Len(tasks) :
              Cardinality({k \in 1..Len(sRet.val) : sRet.val[k] = task_record(i)}) = 1
        /\ \A k \in 1..(Len(sRet.val) - 1) : sRet.val[k].size_bytes >= sRet.val[k + 1].size_bytes

C14_Witness ==
    /\ sRet.done
    /\ Len(sRet.val) = 2
    /\ sRet.val[1].directory = directories[2].dir_path
    /\ sRet.val[1].size_bytes = sRet.val[2].size_bytes
    /\ sRet.val[1].size_bytes > 0

\* C16: with every tool call returning or timing out and every possible step taken
\* in the end, get_user_usage on a volume that exists returns; on a missing path it
\* returns or raises; no step of the chain or of the scan waits forever.
C16_Returns == <>((pc = "done" /\ ret.done) \/ (pc = "raised" /\ path_state = "missing"))

C16_Witness ==
    /\ pc = "done"
    /\ called = {"A", "B", "scan"}
    /\ Len(ret.val) >= 1
    /\ \E i \in 1..Len(tasks) : tasks[i].kind = "timeout"
    /\ \E k \in 1..Len(entries) : ~entries[k].isdir

\* p is q or an ancestor of q
IsPrefix(p, q) == Len(p) <= Len(q) /\ SubSeq(q, 1, Len(p)) = p

\* C17: _get_mount_point ends, and what it returns is a mount point that is the
\* absolute path itself or an ancestor of it, with no mount point between the two;
\* nothing but the return ends it.
C17_MountPoint ==
    /\ <>(pc = "mounted")
    /\ [](pc = "mounted" =>
            /\ path \in mounts
            /\ IsPrefix(path, abspath(disk_path))
            /\ \A m \in mounts : IsPrefix(m, abspath(disk_path)) => Len(m) <= Len(path))
    /\ [](pc \in {"get_mount_point", "ismount", "mounted"})

C17_Witness ==
    /\ pc = "mounted"
    /\ path /= <<>>
    /\ Len(abspath(disk_path)) >= Len(path) + 2
    /\ disk_path.rel

\* C18: without directories to scan -- a volume with no subdirectory, a missing path
\* or a refused listing -- get_user_usage_parallel returns the empty list, and no
\* worker count is computed and no task submitted, then or before.
C18_NoPoolWhenEmpty ==
    /\ directories = <<>> => (tasks = <<>> /\ num_workers = 0 /\ num_directories = 0)
    /\ (sRet.done /\ (path_state /= "ok" \/ \A i \in 1..Len(entries) : ~entries[i].isdir))
          => /\ sRet.some /\ sRet.val = <<>>
             /\ directories = <<>>
             /\ pc = "done"

C18_Witness ==
    /\ sRet.done
    /\ path_state = "ok"
    /\ Len(entries) = 2
    /\ sRet.val = <<>>
    /\ use_quotas

\* C19 as stated: a du call gives 0 on a non-zero exit, a timeout or any other
\* failure and never raises, and on success the count du printed; the record of a
\* directory whose du failed is tagged error, which tells it from an empty directory.
C19_Stated ==
    (sRet.done /\ tasks /= <<>>) =>
        \A i \in 1..Len(tasks) :
            /\ ~tasks[i].raised
            /\ tasks[i].size >= 0
            /\ tasks[i].kind /= "ok" => tasks[i].size = 0
            /\ \A r \in Records(sRet) :
                  r.directory = directories[i].dir_path
                      => (r.source = "error" <=> tasks[i].kind /= "ok")

\* C20: neither quota strategy ever returns an empty list; _try_repquota returns its
\* records exactly when there is one, _try_quota_per_user exactly when a query was
\* answered and a record made; an empty result of get_user_usage is the scan's.
C20_QuotaNoneOrNonEmpty ==
    /\ [](/\ aRet.some => aRet.val /= <<>>
          /\ bRet.some => bRet.val /= <<>>
          /\ (ret.done /\ ret.val = <<>>) => (sRet.done /\ ret = sRet))
    /\ [][/\ pc = "repquota"
               => /\ aRet'.some <=> (result.kind = "ok" /\ repquota_lines(result.stdout, FALSE) /= <<>>)
                  /\ {aRet'.val[k] : k \in 1..Len(aRet'.val)}
                        = {repquota_lines(result.stdout, FALSE)[k] :
                             k \in 1..Len(repquota_lines(result.stdout, FALSE))}
          /\ (pc = "quota_loop" /\ idx > Len(entries))
               => /\ bRet'.some <=> (quota_available /\ user_usage /= <<>>)
                  /\ bRet'.some => {bRet'.val[k] : k \in 1..Len(bRet'.val)}
                                      = {user_usage[k] : k \in 1..Len(user_usage)}
         ]_vars

C20_Witness ==
    /\ pc = "quota_loop"
    /\ idx > Len(entries)
    /\ quota_available
    /\ user_usage = <<>>
    /\ aRet = Returned(None)

-----------------------------------------------------------------------------
(* The per-account queries of Strategy B *)

\* a per-account query that did not run to success or printed nothing
QueryFailed(res) ==
    \/ res.kind \in FailureKinds
    \/ res.kind = "ok" /\ \A k \in 1..Len(res.stdout) : res.stdout[k].f = <<>>

\* line k of an answer names the volume or its mount point and carries a block count
Matches(res, k) ==
    /\ res.stdout[k].m \in {"path", "mount"}
    /\ Len(res.stdout[k].f) >= 2
    /\ Numeric(res.stdout[k].f[2], {"*"})

\* a per-account query that succeeded and parsed
QueryParsed(res) == res.kind = "ok" /\ \E k \in 1..Len(res.stdout) : Matches(res, k)

\* C21: in _try_quota_per_user a failed query (tool missing, timeout, non-zero exit,
\* empty output, any exception) adds no record and the loop moves to the next entry;
\* while entries remain nothing is returned and every directory among them is
\* queried; a query that succeeded and parsed adds the record of its directory, no
\* record gathered is ever dropped, and the gathered records are the returned batch.
C21_FailedQuerySkipped ==
    [][/\ pc = "quota"
            => /\ pc' = "quota_loop" /\ idx' = idx + 1
               /\ IsPrefix(user_usage, user_usage')
               /\ QueryFailed(result) => user_usage' = user_usage
               /\ QueryParsed(result)
                    => /\ Len(user_usage') = Len(user_usage) + 1
                       /\ user_usage'[Len(user_usage')].directory = entries[idx].name
       /\ (pc = "quota_loop" /\ idx <= Len(entries))
            => /\ bRet' = bRet /\ user_usage' = user_usage
               /\ pc' = IF entries[idx].isdir THEN "quota" ELSE "quota_loop"
               /\ idx' = IF entries[idx].isdir THEN idx ELSE idx + 1
       /\ (pc = "quota_loop" /\ idx > Len(entries) /\ user_usage /= <<>>)
            => /\ bRet'.some /\ ret' = bRet' /\ pc' = "done"
               /\ Len(bRet'.val) = Len(user_usage)
               /\ \A k \in 1..Len(user_usage) :
                     \E j \in 1..Len(bRet'.val) : bRet'.val[j] = user_usage[k]
      ]_vars

\* the first directory's query failed and the second one's succeeded and parsed
C21_Witness ==
    /\ pc = "quota"
    /\ idx = 2
    /\ entries[1].isdir
    /\ ~quota_available
    /\ QueryParsed(result)

\* line k of an answer contains the volume's path or its mount point
Names(res, k) == res.stdout[k].m \in {"path", "mount"}

\* the block count written in a field: its digits read as a decimal number
BlockCount(field) == DigitsValue(SelectSeq(field, IsDigit))

\* the first of a non-empty set of line numbers
First(S) == CHOOSE k \in S : \A j \in S : k <= j

\* C22 as stated: the record of a subdirectory comes from the first line of the
\* answer that contains the path or the mount point, with that line's block count
\* times 1024 as size; lines after that line are never used.
C22_Stated ==
    [][(pc = "quota" /\ quota_answered(result))
          => LET naming == {k \in 1..Len(result.stdout) : Names(result, k)}
             IN  IF naming /= {} /\ Matches(result, First(naming))
                 THEN user_usage' = Append(user_usage,
                          Record(username, entries[idx].name,
                                 BlockCount(result.stdout[First(naming)].f[2]) * KiB, "quota"))
                 ELSE user_usage' = user_usage
      ]_vars

\* C22: the record of a subdirectory comes from the first line of the answer that
\* contains the path or the mount point and whose second field is a block count; its
\* size is that count times 1024; lines after that line are never used, lines before
\* it that contain the path without a block count are passed over; one query adds at
\* most one record.
C22_FirstParsableLine ==
    [][pc = "quota"
          => /\ Len(user_usage') <= Len(user_usage) + 1
             /\ quota_answered(result)
                  => LET matching == {k \in 1..Len(result.stdout) : Matches(result, k)}
                     IN  IF matching /= {}
                         THEN user_usage' = Append(user_usage,
                                  Record(username, entries[idx].name,
                                         BlockCount(result.stdout[First(matching)].f[2]) * KiB,
                                         "quota"))
                         ELSE user_usage' = user_usage
      ]_vars

\* an answer whose two lines both name the volume, with different block counts
C22_Witness ==
    /\ pc = "quota"
    /\ Len(result.stdout) = 2
    /\ Matches(result, 1) /\ Matches(result, 2)
    /\ BlockCount(result.stdout[1].f[2]) /= BlockCount(result.stdout[2].f[2])

-----------------------------------------------------------------------------
(* The shared list of get_user_usage_parallel *)

\* the task slots that a step changes
Touched == {i \in 1..Len(tasks) : tasks'[i] /= tasks[i]}

\* C23: while the pool of get_user_usage_parallel is open, the list holds exactly one
\* record for each future already yielded by as_completed and none for any other, in
\* every interleaving of task completions; a worker's step changes nothing but its
\* own task, from queued to running or from running to finished with one size, and
\* leaves the list alone; the list changes only by the collecting loop appending the
\* one record of the one future it yields.
C23_RaceFreeAppend ==
    /\ [](pc = "as_completed"
            => /\ Len(user_usage) = Cardinality(InState("collected"))
               /\ \A i \in InState("collected") :
                     Cardinality({k \in 1..Len(user_usage) :
                                    user_usage[k].directory = directories[i].dir_path}) = 1)
    /\ [][(pc = "as_completed" /\ pc' = "as_completed")
            => /\ Len(tasks') = Len(tasks)
               /\ Cardinality(Touched) = 1
               /\ directories' = directories
               /\ \A i \in Touched :
                     \/ /\ tasks[i].st = "queued" /\ tasks'[i].st = "running"
                        /\ user_usage' = user_usage
                     \/ /\ tasks[i].st = "running" /\ tasks'[i].st = "finished"
                        /\ tasks'[i].size \in 0..MaxDuSize
                        /\ user_usage' = user_usage
                     \/ /\ tasks[i].st = "finished" /\ tasks'[i].st = "collected"
                        /\ tasks'[i].size = tasks[i].size
                        /\ Len(user_usage') = Len(user_usage) + 1
                        /\ IsPrefix(user_usage, user_usage')
                        /\ user_usage'[Len(user_usage')].directory = directories[i].dir_path
                        /\ user_usage'[Len(user_usage')].size_bytes = tasks[i].size
         ]_vars

\* the second directory's future was yielded first and its record appended while the
\* first directory's future, finished too, waits for its turn
C23_Witness ==
    /\ pc = "as_completed"
    /\ Len(tasks) = 2
    /\ tasks[1].st = "finished"
    /\ tasks[2].st = "collected"
    /\ Len(user_usage) = 1
    /\ user_usage[1].directory = directories[2].dir_path

-----------------------------------------------------------------------------
(* One record per directory *)

\* no two records of a list name the same directory
DistinctDirectories(list) ==
    \A j, k \in 1..Len(list) : j /= k => list[j].directory /= list[k].directory

\* C24 as stated: in every list that get_user_usage returns no two records have the
\* same directory, whatever rows the quota tools report.
C24_Stated == ret.done => DistinctDirectories(ret.val)

\* the part of C24 that holds: the lists of the per-user queries and of the scan
C24_ListingBased == DistinctDirectories(bRet.val) /\ DistinctDirectories(sRet.val)

-----------------------------------------------------------------------------
(* When run() sends mail *)

\* the mailx commands of the outbox with the given subject
Mails(box, subject) ==
    {k \in 1..Len(box) : \E j \in 1..Len(box[k].subject) : box[k].subject[j] = subject}

\* the threshold of disk i: usage_limit_percent, 80 when the entry has none
Threshold(i) ==
    IF disks[i].usage_limit_percent.kind = "unset" THEN 80
    ELSE disks[i].usage_limit_percent.val

\* C25: run() sends a user alert for a disk only when that disk's statistics were
\* obtained, its percentage used is at least its threshold (80 when none is
\* configured) and its per-user list is not empty; the consolidated admin email is
\* sent at most once a run, after every disk was processed, with administrators
\* configured and at least one disk that yielded statistics; no mail leaves
\* otherwise.
C25_MailOnlyWhenDue ==
    /\ [](Cardinality(Mails(outbox, "report")) <= 1)
    /\ [][/\ IsPrefix(outbox, outbox')
          /\ Len(outbox') <= Len(outbox) + 1
          /\ Mails(outbox', "alert") /= Mails(outbox, "alert")
               => /\ pc = "alert" /\ disk_index \in 1..Len(disks)
                  /\ disk_results /= <<>>
                  /\ LET res == disk_results[Len(disk_results)]
                     IN  /\ res.disk_config = disk_index
                         /\ res.usage_stats.some
                         /\ disks[disk_index].usage_limit_percent.kind /= "str"
                         /\ res.usage_stats.val >= Threshold(disk_index)
                         /\ res.user_usage /= <<>>
          /\ Mails(outbox', "report") /= Mails(outbox, "report")
               => /\ Mails(outbox, "report") = {}
                  /\ disk_index > Len(disks)
                  /\ Len(processed) = Len(disks)
                  /\ \A i \in 1..Len(disks) : \E k \in 1..Len(processed) : processed[k] = i
                  /\ administrators /= <<>>
                  /\ \E k \in 1..Len(disk_results) : disk_results[k].usage_stats.some
                  /\ pc' = "exit"
          /\ pc \in {"exit", "raised"} => outbox' = outbox
         ]_vars

\* a run over two disks: the first, at 60 percent with no threshold configured, got
\* no alert; the second, at its threshold of 60 percent, got one; the report followed
C25_Witness ==
    /\ pc = "exit"
    /\ Len(disks) = 2
    /\ disks[1].usage_limit_percent.kind = "unset"
    /\ disks[2].usage_limit_percent.kind = "int"
    /\ Len(disk_results) = 2
    /\ disk_results[1].usage_stats = [some |-> TRUE, val |-> 60]
    /\ disk_results[1].user_usage /= <<>>
    /\ disk_results[2].usage_stats = [some |-> TRUE, val |-> 60]
    /\ Cardinality(Mails(outbox, "alert")) = 1
    /\ Cardinality(Mails(outbox, "report")) = 1

====
